---- MODULE Spec2Model ----
(***************************************************************************)
(* Model of the student grouping pipeline (src/tut_01/tut01.py) and of    *)
(* the BTP/MTP preference allocator (src/tut_02/fac_allocator.py).        *)
(*                                                                         *)
(* Text values (Roll, Branch) are sequences of character codes, so that   *)
(* slicing and lexicographic comparison are computed as Python computes   *)
(* them.  A roster row carries its position in the uploaded file as "id"; *)
(* the id is bookkeeping used to tell equal-looking rows apart.           *)
(***************************************************************************)
EXTENDS Integers, Sequences, FiniteSets, TLC

\* ------------------------------------------------------------------ bounds
MaxS == 6          \* largest roster of the grouping pipeline
MaxN == 3          \* largest number of groups asked for
MaxF == 3          \* largest number of faculty columns
MaxStudents == 4   \* largest roster of the preference allocator
MaxRerunS == 2     \* largest roster when Process is pressed again and again
MaxRerunN == 2     \* largest number of groups in those runs
MaxLiveS == 3      \* largest roster of the runs followed to their end
MaxLiveN == 3      \* largest number of groups in those runs

\* ------------------------------------------------------- input alphabets
RollCS    == <<50, 52, 48, 49, 67, 83, 48, 49>>   \* "2401CS01"
RollEE    == <<50, 52, 48, 49, 69, 69, 48, 49>>   \* "2401EE01"
RollShort == <<50, 52, 48, 49, 67>>               \* "2401C"
RollPool  == {RollCS, RollEE, RollShort}

Rosters == UNION {[1..n -> RollPool] : n \in 0..MaxS}

RerunRosters == UNION {[1..n -> RollPool] : n \in 0..MaxRerunS}

LiveRosters == UNION {[1..n -> RollPool] : n \in 0..MaxLiveS}

FacultyNames == <<"F1", "F2", "F3", "F4">>

\* preference rows over the faculty columns cols: the rotations of the
\* ranking 1..F, its reverse, and two rows that are not permutations (the
\* code does not validate)
PrefRows(cols) ==
    LET F == Len(cols)
        fs == {cols[j] : j \in 1..F}
        Idx(f) == CHOOSE j \in 1..F : cols[j] = f
    IN {[f \in fs |-> ((Idx(f) + k) % F) + 1] : k \in 0..(F - 1)}
       \cup {[f \in fs |-> F + 1 - Idx(f)]}
       \cup {[f \in fs |-> 1], [f \in fs |-> IF f = cols[1] THEN 0 ELSE 1]}

\* CGPA columns: all different and ascending, or the same with the last two
\* rows sharing the highest CGPA
CGPAColumns(n) ==
    {[i \in 1..n |-> i], [i \in 1..n |-> IF i = n /\ n > 1 THEN n - 1 ELSE i]}

VARIABLES
    entry,            \* who calls: the script, or one function directly
    roster,           \* the uploaded table: sequence of Roll values
    N,                \* number of groups (st.number_input, min_value=1)
    pc,               \* position of the run
    df,               \* the loaded table, with the derived Branch column
    bw_files,         \* full_branchwise/<branch>.csv
    group_sizes,      \* [q+1]*r + [q]*(N-r)
    branches,         \* round-robin mixer: branch -> deque
    branch_order,     \* round-robin mixer: list(branches.keys())
    mix_groups,       \* round-robin mixer: groups
    mix_group,        \* round-robin mixer: group being filled
    mix_g,            \* round-robin mixer: g of "for g in range(N)"
    mix_files,        \* group_branch_wise_mix/g<idx>.csv
    mix_status,       \* "none", "running", "returned", "raised"
    branch_students,  \* largest-remaining mixer: branch -> deque
    uni_groups,       \* largest-remaining mixer: groups
    uni_group,        \* largest-remaining mixer: group being filled
    uni_g,            \* largest-remaining mixer: index into group_sizes
    remaining,        \* largest-remaining mixer: remaining
    branch,           \* largest-remaining mixer: branch chosen by max()
    uni_files,        \* group_uniform_mix/g<idx>.csv
    uni_status,       \* "none", "running", "returned", "raised"
    outputs,          \* base_dir "outputs" on disk, one field per entry
    found_groups,     \* group files the directory held when Process was pressed
    input_df,         \* allocator: the table read from input_file
    faculty_columns,  \* allocator: df.columns[4:]
    df_sorted,        \* allocator: rows in CGPA-descending order
    allocated,        \* allocator: student_idx -> faculty
    faculty_preference_stats,        \* allocator: faculty -> rank -> count
    cycle,            \* allocator: cycle of "for cycle in range(...)"
    student_idx,      \* allocator: next student index (0-based)
    faculties_allocated_in_cycle,    \* allocator: set of the running cycle
    faculties_allocated_in_partial,  \* allocator: set of the partial cycle
    output_df,        \* allocator: returned allocation table
    pref_stats_df,    \* allocator: returned statistics table
    apc               \* allocator: position of allocate_students

mixvars == <<entry, roster, N, pc, df, bw_files, group_sizes, branches,
             branch_order, mix_groups, mix_group, mix_g, mix_files,
             mix_status, branch_students, uni_groups, uni_group, uni_g,
             remaining, branch, uni_files, uni_status, outputs,
             found_groups>>

allocvars == <<input_df, faculty_columns, df_sorted, allocated,
               faculty_preference_stats, cycle, student_idx,
               faculties_allocated_in_cycle, faculties_allocated_in_partial,
               output_df, pref_stats_df, apc>>

vars == <<mixvars, allocvars>>

\* ---------------------------------------------------------- Python helpers
Min(a, b) == IF a < b THEN a ELSE b

\* s[lo:hi] for 0 <= lo <= hi on a text value
PySlice(s, lo, hi) == SubSeq(s, lo + 1, Min(hi, Len(s)))

\* a < b for text values (lexicographic on character codes)
RECURSIVE StrLess(_, _)
StrLess(a, b) ==
    IF b = <<>> THEN FALSE
    ELSE IF a = <<>> THEN TRUE
    ELSE IF Head(a) # Head(b) THEN Head(a) < Head(b)
    ELSE StrLess(Tail(a), Tail(b))

Range(s) == {s[i] : i \in 1..Len(s)}

\* [x] * n
Repeat(x, n) == [i \in 1..n |-> x]

\* Series.unique(): distinct values in order of first appearance
RECURSIVE Unique(_)
Unique(s) ==
    IF s = <<>> THEN <<>>
    ELSE LET u == Unique(SubSeq(s, 1, Len(s) - 1))
             x == s[Len(s)]
         IN IF x \in Range(u) THEN u ELSE Append(u, x)

BranchCol(t) == [i \in 1..Len(t) |-> t[i].Branch]

RowsOf_ne(t, b) == SelectSeq(t, LAMBDA row : row.Branch # b)

\* df[df['Branch'] == b]
RowsOf(t, b) == SelectSeq(t, LAMBDA row : row.Branch = b)

\* DataFrame.drop(columns=['Branch']) on one record
DropBranch(row) == [id |-> row.id, Roll |-> row.Roll]

DropBranchRows(rows) == [i \in 1..Len(rows) |-> DropBranch(rows[i])]

DfColumns == <<"Roll", "Branch">>

\* ------------------------------------------------------------------- Init
\* base_dir does not exist, or holds nothing: no branch file, no group
\* file in either group directory, no output.xlsx
NoOutputs ==
    [full_branchwise |-> <<>>, group_branch_wise_mix |-> <<>>,
     group_uniform_mix |-> <<>>, output_xlsx |-> <<>>]

AllocIdle ==
    /\ input_df = <<>>
    /\ faculty_columns = <<>>
    /\ df_sorted = <<>>
    /\ allocated = <<>>
    /\ faculty_preference_stats = <<>>
    /\ cycle = 0
    /\ student_idx = 0
    /\ faculties_allocated_in_cycle = {}
    /\ faculties_allocated_in_partial = {}
    /\ output_df = <<>>
    /\ pref_stats_df = <<>>
    /\ apc = "idle"

MixIdle ==
    /\ entry = "none"
    /\ roster = <<>>
    /\ N = 1
    /\ pc = "idle"
    /\ df = <<>>
    /\ bw_files = <<>>
    /\ group_sizes = <<>>
    /\ branches = <<>>
    /\ branch_order = <<>>
    /\ mix_groups = <<>>
    /\ mix_group = <<>>
    /\ mix_g = 0
    /\ mix_files = <<>>
    /\ mix_status = "none"
    /\ branch_students = <<>>
    /\ uni_groups = <<>>
    /\ uni_group = <<>>
    /\ uni_g = 0
    /\ remaining = 0
    /\ branch = <<>>
    /\ uni_files = <<>>
    /\ uni_status = "none"
    /\ outputs = NoOutputs
    /\ found_groups = 0

MixInit ==
    /\ AllocIdle
    /\ entry \in {"script", "generate_group_uniform_mix",
                 "generate_combined_summary"}
    /\ roster \in Rosters
    /\ N \in 1..MaxN
    /\ pc = "start"
    /\ df = <<>>
    /\ bw_files = <<>>
    /\ group_sizes = <<>>
    /\ branches = <<>>
    /\ branch_order = <<>>
    /\ mix_groups = <<>>
    /\ mix_group = <<>>
    /\ mix_g = 0
    /\ mix_files = <<>>
    /\ mix_status = "none"
    /\ branch_students = <<>>
    /\ uni_groups = <<>>
    /\ uni_group = <<>>
    /\ uni_g = 0
    /\ remaining = 0
    /\ branch = <<>>
    /\ uni_files = <<>>
    /\ uni_status = "none"
    /\ outputs = NoOutputs
    /\ found_groups = 0

\* ------------------------------------------------------ script: load step
\* df['Branch'] = df['Roll'].astype(str).str[4:6]
Branch(roll) == PySlice(roll, 4, 6)

LoadedTable(r) == [i \in 1..Len(r) |-> [id |-> i, Roll |-> r[i], Branch |-> Branch(r[i])]]

\* gdf.to_csv(os.path.join(output_dir, f"g{idx}.csv")): the file g<idx>.csv
\* is created or overwritten, the other files of the directory stay
to_csv(dir, idx, table) == (idx :> table) @@ dir

rmtree_keep(dir) == dir

\* if os.path.exists(base_dir): shutil.rmtree(base_dir)
\* os.makedirs(base_dir, exist_ok=True)
rmtree(dir) == NoOutputs

Process ==
    /\ pc = "start"
    /\ df' = LoadedTable(roster)
    /\ outputs' = IF entry = "script" THEN rmtree(outputs) ELSE outputs
    /\ pc' = IF entry = "script" THEN "generate_branchwise" ELSE "uni_setup"
    /\ UNCHANGED <<entry, roster, N, found_groups,
                   bw_files, group_sizes, branches,
                   branch_order, mix_groups, mix_group, mix_g, mix_files,
                   mix_status, branch_students, uni_groups, uni_group, uni_g,
                   remaining, branch, uni_files, uni_status>>
    /\ UNCHANGED allocvars

\* ---------------------------------------------------- generate_branchwise
BranchTable(t, b) == [columns |-> <<"Roll">>, rows |-> DropBranchRows(RowsOf(t, b))]

generate_branchwise ==
    /\ pc = "generate_branchwise"
    /\ bw_files' = [b \in Range(Unique(BranchCol(df))) |-> BranchTable(df, b)]
    /\ outputs' = [outputs EXCEPT !.full_branchwise = bw_files' @@ @]
    /\ pc' = "mix_setup"
    /\ UNCHANGED <<entry, roster, N, found_groups,
                   df, group_sizes, branches,
                   branch_order, mix_groups, mix_group, mix_g, mix_files,
                   mix_status, branch_students, uni_groups, uni_group, uni_g,
                   remaining, branch, uni_files, uni_status>>
    /\ UNCHANGED allocvars

\* ------------------------------------------ group sizes (both mixers)
GroupSizes_noextra(total_students, n) == Repeat(total_students \div n, n)

GroupSizes_tail(total_students, n) ==
    LET q == total_students \div n
        r == total_students % n
    IN Repeat(q, n - r) \o Repeat(q + 1, r)

GroupSizes_ceil(total_students, n) ==
    Repeat((total_students + n - 1) \div n, n)

\* q, r = divmod(total_students, N); [q + 1] * r + [q] * (N - r)
GroupSizes(total_students, n) ==
    LET q == total_students \div n
        r == total_students % n
    IN Repeat(q + 1, r) \o Repeat(q, n - r)

pop_right(q) == [item |-> q[Len(q)], rest |-> SubSeq(q, 1, Len(q) - 1)]

\* deque.popleft(): the item handed out and the deque left behind
popleft(q) == [item |-> Head(q), rest |-> Tail(q)]

\* ------------------------------------------ generate_group_branchwise_mix
\* any(branches.values())
AnyBranch(bs) == \E b \in DOMAIN bs : bs[b] # <<>>

RECURSIVE Sweep_rev(_, _, _, _, _)
Sweep_rev(bs, grp, size, order, i) ==
    IF i > Len(order) THEN [branches |-> bs, group |-> grp]
    ELSE LET b == order[Len(order) + 1 - i]
         IN IF bs[b] # <<>> /\ Len(grp) < size
            THEN LET p == popleft(bs[b])
                 IN Sweep_rev([bs EXCEPT ![b] = p.rest], Append(grp, p.item),
                              size, order, i + 1)
            ELSE Sweep_rev(bs, grp, size, order, i + 1)

\* one pass of "for branch in branch_order", from position i on
RECURSIVE Sweep(_, _, _, _, _)
Sweep(bs, grp, size, order, i) ==
    IF i > Len(order) THEN [branches |-> bs, group |-> grp]
    ELSE LET b == order[i]
         IN IF bs[b] # <<>> /\ Len(grp) < size
            THEN LET p == popleft(bs[b])
                 IN Sweep([bs EXCEPT ![b] = p.rest], Append(grp, p.item),
                          size, order, i + 1)
            ELSE Sweep(bs, grp, size, order, i + 1)

MixSetup ==
    /\ pc = "mix_setup"
    /\ group_sizes' = GroupSizes(Len(df), N)
    /\ branch_order' = Unique(BranchCol(df))
    /\ branches' = [b \in Range(Unique(BranchCol(df))) |-> RowsOf(df, b)]
    /\ mix_groups' = <<>>
    /\ mix_group' = <<>>
    /\ mix_g' = 0
    /\ mix_status' = "running"
    /\ pc' = "mix_fill"
    /\ UNCHANGED <<entry, roster, N, found_groups, outputs,
                   df, bw_files, mix_files,
                   branch_students, uni_groups, uni_group, uni_g,
                   remaining, branch, uni_files, uni_status>>
    /\ UNCHANGED allocvars

\* while len(group) < group_sizes[g] and any(branches.values())
MixWhile == Len(mix_group) < group_sizes[mix_g + 1] /\ AnyBranch(branches)

MixSweep ==
    /\ pc = "mix_fill"
    /\ mix_g < N
    /\ MixWhile
    /\ LET s == Sweep(branches, mix_group, group_sizes[mix_g + 1], branch_order, 1)
       IN /\ branches' = s.branches
          /\ mix_group' = s.group
    /\ UNCHANGED <<entry, roster, N, found_groups, outputs,
                   pc, df, bw_files, group_sizes,
                   branch_order, mix_groups, mix_g, mix_files,
                   mix_status, branch_students, uni_groups, uni_group, uni_g,
                   remaining, branch, uni_files, uni_status>>
    /\ UNCHANGED allocvars

\* groups.append(group), then the next g starts with group = []
MixGroupDone ==
    /\ pc = "mix_fill"
    /\ mix_g < N
    /\ ~MixWhile
    /\ mix_groups' = Append(mix_groups, mix_group)
    /\ mix_group' = <<>>
    /\ mix_g' = mix_g + 1
    /\ UNCHANGED <<entry, roster, N, found_groups, outputs,
                   pc, df, bw_files, group_sizes, branches,
                   branch_order, mix_files,
                   mix_status, branch_students, uni_groups, uni_group, uni_g,
                   remaining, branch, uni_files, uni_status>>
    /\ UNCHANGED allocvars

MixFillDone ==
    /\ pc = "mix_fill"
    /\ mix_g = N
    /\ pc' = "mix_export"
    /\ UNCHANGED <<entry, roster, N, found_groups, outputs,
                   df, bw_files, group_sizes, branches,
                   branch_order, mix_groups, mix_group, mix_g, mix_files,
                   mix_status, branch_students, uni_groups, uni_group, uni_g,
                   remaining, branch, uni_files, uni_status>>
    /\ UNCHANGED allocvars

\* pd.DataFrame(group).drop(columns=['Branch']): a frame built from an empty
\* list has no columns, and drop() raises KeyError on a missing label
MixFrameColumns(grp) == IF grp = <<>> THEN <<>> ELSE DfColumns

MixDropRaises(grp) == "Branch" \notin Range(MixFrameColumns(grp))

MixTable(grp) == [columns |-> <<"Roll">>, rows |-> DropBranchRows(grp)]

MixExport ==
    /\ pc = "mix_export"
    /\ Len(mix_files) < N
    /\ ~MixDropRaises(mix_groups[Len(mix_files) + 1])
    /\ mix_files' = Append(mix_files, MixTable(mix_groups[Len(mix_files) + 1]))
    /\ outputs' = [outputs EXCEPT !.group_branch_wise_mix =
                      to_csv(@, Len(mix_files'), mix_files'[Len(mix_files')])]
    /\ UNCHANGED <<entry, roster, N, found_groups,
                   pc, df, bw_files, group_sizes, branches,
                   branch_order, mix_groups, mix_group, mix_g,
                   mix_status, branch_students, uni_groups, uni_group, uni_g,
                   remaining, branch, uni_files, uni_status>>
    /\ UNCHANGED allocvars

MixExportRaise ==
    /\ pc = "mix_export"
    /\ Len(mix_files) < N
    /\ MixDropRaises(mix_groups[Len(mix_files) + 1])
    /\ mix_status' = "raised"
    /\ pc' = "aborted"
    /\ UNCHANGED <<entry, roster, N, found_groups, outputs,
                   df, bw_files, group_sizes, branches,
                   branch_order, mix_groups, mix_group, mix_g, mix_files,
                   branch_students, uni_groups, uni_group, uni_g,
                   remaining, branch, uni_files, uni_status>>
    /\ UNCHANGED allocvars

MixReturn ==
    /\ pc = "mix_export"
    /\ Len(mix_files) = N
    /\ mix_status' = "returned"
    /\ pc' = "uni_setup"
    /\ UNCHANGED <<entry, roster, N, found_groups, outputs,
                   df, bw_files, group_sizes, branches,
                   branch_order, mix_groups, mix_group, mix_g, mix_files,
                   branch_students, uni_groups, uni_group, uni_g,
                   remaining, branch, uni_files, uni_status>>
    /\ UNCHANGED allocvars

\* --------------------------------------------- generate_group_uniform_mix
\* (len(branch_students[b]), b) compared as Python compares tuples
KeyLess(l1, b1, l2, b2) == l1 < l2 \/ (l1 = l2 /\ StrLess(b1, b2))

MaxBranch_min(bs) ==
    CHOOSE b \in DOMAIN bs :
        \A c \in DOMAIN bs : c # b => KeyLess(Len(bs[b]), b, Len(bs[c]), c)

MaxBranch_smallname(bs) ==
    CHOOSE b \in DOMAIN bs :
        \A c \in DOMAIN bs : c # b =>
           \/ Len(bs[c]) < Len(bs[b])
           \/ (Len(bs[c]) = Len(bs[b]) /\ StrLess(b, c))

\* max(branch_students.keys(), key=lambda b: (len(branch_students[b]), b))
MaxBranch(bs) ==
    CHOOSE b \in DOMAIN bs :
        \A c \in DOMAIN bs : c # b => KeyLess(Len(bs[c]), c, Len(bs[b]), b)

RECURSIVE TakeN_back(_, _, _)
TakeN_back(q, grp, take) ==
    IF take = 0 THEN [queue |-> q, group |-> grp]
    ELSE LET p == pop_right(q)
         IN TakeN_back(p.rest, Append(grp, p.item), take - 1)

\* for _ in range(take): group.append(branch_students[branch].popleft())
RECURSIVE TakeN(_, _, _)
TakeN(q, grp, take) ==
    IF take = 0 THEN [queue |-> q, group |-> grp]
    ELSE LET p == popleft(q)
         IN TakeN(p.rest, Append(grp, p.item), take - 1)

\* {b: deque(g.to_dict('records')) for b, g in df.groupby('Branch')}
GroupByBranch(t) == [b \in Range(BranchCol(t)) |-> RowsOf(t, b)]

UniSetup ==
    /\ pc = "uni_setup"
    /\ group_sizes' = GroupSizes(Len(df), N)
    /\ branch_students' = GroupByBranch(df)
    /\ uni_groups' = <<>>
    /\ uni_g' = 0
    /\ uni_status' = "running"
    /\ pc' = "uni_for"
    /\ UNCHANGED <<entry, roster, N, found_groups, outputs,
                   df, bw_files, branches,
                   branch_order, mix_groups, mix_group, mix_g, mix_files,
                   mix_status, uni_group, remaining, branch, uni_files>>
    /\ UNCHANGED allocvars

\* for size in group_sizes: group = []; remaining = size
UniNextGroup ==
    /\ pc = "uni_for"
    /\ uni_g < Len(group_sizes)
    /\ uni_group' = <<>>
    /\ remaining' = group_sizes[uni_g + 1]
    /\ pc' = "uni_while"
    /\ UNCHANGED <<entry, roster, N, found_groups, outputs,
                   df, bw_files, group_sizes, branches,
                   branch_order, mix_groups, mix_group, mix_g, mix_files,
                   mix_status, branch_students, uni_groups, uni_g,
                   branch, uni_files, uni_status>>
    /\ UNCHANGED allocvars

\* while remaining > 0 and branch_students
UniWhile == remaining > 0 /\ DOMAIN branch_students # {}

UniSelect ==
    /\ pc = "uni_while"
    /\ UniWhile
    /\ branch' = MaxBranch(branch_students)
    /\ pc' = "uni_take"
    /\ UNCHANGED <<entry, roster, N, found_groups, outputs,
                   df, bw_files, group_sizes, branches,
                   branch_order, mix_groups, mix_group, mix_g, mix_files,
                   mix_status, branch_students, uni_groups, uni_group, uni_g,
                   remaining, uni_files, uni_status>>
    /\ UNCHANGED allocvars

UniTake ==
    /\ pc = "uni_take"
    /\ LET take == Min(Len(branch_students[branch]), remaining)
           t == TakeN(branch_students[branch], uni_group, take)
       IN /\ uni_group' = t.group
          /\ remaining' = remaining - take
          /\ branch_students' =
                IF t.queue = <<>>
                THEN [b \in DOMAIN branch_students \ {branch} |-> branch_students[b]]
                ELSE [branch_students EXCEPT ![branch] = t.queue]
    /\ pc' = "uni_while"
    /\ UNCHANGED <<entry, roster, N, found_groups, outputs,
                   df, bw_files, group_sizes, branches,
                   branch_order, mix_groups, mix_group, mix_g, mix_files,
                   mix_status, uni_groups, uni_g, branch, uni_files,
                   uni_status>>
    /\ UNCHANGED allocvars

UniGroupDone ==
    /\ pc = "uni_while"
    /\ ~UniWhile
    /\ uni_groups' = Append(uni_groups, uni_group)
    /\ uni_g' = uni_g + 1
    /\ pc' = "uni_for"
    /\ UNCHANGED <<entry, roster, N, found_groups, outputs,
                   df, bw_files, group_sizes, branches,
                   branch_order, mix_groups, mix_group, mix_g, mix_files,
                   mix_status, branch_students, uni_group,
                   remaining, branch, uni_files, uni_status>>
    /\ UNCHANGED allocvars

UniFillDone ==
    /\ pc = "uni_for"
    /\ uni_g = Len(group_sizes)
    /\ pc' = "uni_export"
    /\ UNCHANGED <<entry, roster, N, found_groups, outputs,
                   df, bw_files, group_sizes, branches,
                   branch_order, mix_groups, mix_group, mix_g, mix_files,
                   mix_status, branch_students, uni_groups, uni_group, uni_g,
                   remaining, branch, uni_files, uni_status>>
    /\ UNCHANGED allocvars

\* pd.DataFrame(group).drop(columns=['Branch']) if group
\*     else pd.DataFrame(columns=df.columns)
UniTable(grp) ==
    IF grp # <<>> THEN [columns |-> <<"Roll">>, rows |-> DropBranchRows(grp)]
    ELSE [columns |-> DfColumns, rows |-> <<>>]

UniExport ==
    /\ pc = "uni_export"
    /\ Len(uni_files) < Len(uni_groups)
    /\ uni_files' = Append(uni_files, UniTable(uni_groups[Len(uni_files) + 1]))
    /\ outputs' = [outputs EXCEPT !.group_uniform_mix =
                      to_csv(@, Len(uni_files'), uni_files'[Len(uni_files')])]
    /\ UNCHANGED <<entry, roster, N, found_groups,
                   pc, df, bw_files, group_sizes, branches,
                   branch_order, mix_groups, mix_group, mix_g, mix_files,
                   mix_status, branch_students, uni_groups, uni_group, uni_g,
                   remaining, branch, uni_status>>
    /\ UNCHANGED allocvars

UniReturn ==
    /\ pc = "uni_export"
    /\ Len(uni_files) = Len(uni_groups)
    /\ uni_status' = "returned"
    /\ pc' = IF entry = "generate_group_uniform_mix"
             THEN "done" ELSE "generate_combined_summary"
    /\ UNCHANGED <<entry, roster, N, found_groups, outputs,
                   df, bw_files, group_sizes, branches,
                   branch_order, mix_groups, mix_group, mix_g, mix_files,
                   mix_status, branch_students, uni_groups, uni_group, uni_g,
                   remaining, branch, uni_files>>
    /\ UNCHANGED allocvars

\* --------------------------------------------- generate_combined_summary
IsDigits(s) == \A i \in 1..Len(s) : s[i] \in 48..57

RECURSIVE StripZeros(_)
StripZeros(s) ==
    IF Len(s) > 1 /\ Head(s) = 48 THEN StripZeros(Tail(s)) ELSE s

\* pd.read_csv(...)['Roll'].astype(str): a column whose values are all made
\* of digits is read as integers and printed back without leading zeros,
\* any other column is read as the text that was written
read_csv_Roll(table) ==
    LET col == [i \in 1..Len(table.rows) |-> table.rows[i].Roll]
    IN IF col # <<>> /\ \A i \in 1..Len(col) : col[i] # <<>> /\ IsDigits(col[i])
       THEN [i \in 1..Len(col) |-> StripZeros(col[i])]
       ELSE col

ValueCounts_one(col) == [b \in Range(col) |-> 1]

\* df['Branch'].value_counts().to_dict()
ValueCounts(col) ==
    [b \in Range(col) |-> Cardinality({i \in 1..Len(col) : col[i] = b})]

\* sorted(branch_cols)
RECURSIVE SortStrings(_)
SortStrings(S) ==
    IF S = {} THEN <<>>
    ELSE LET m == CHOOSE x \in S : \A y \in S \ {x} : StrLess(x, y)
         IN <<m>> \o SortStrings(S \ {m})

\* df_summary[branch_cols].sum(axis=1) for one row
RECURSIVE RowSum(_, _)
RowSum(counts, cols) ==
    IF cols = <<>> THEN 0 ELSE counts[Head(cols)] + RowSum(counts, Tail(cols))

\* make_summary(input_dir): one row per file of sorted(os.listdir(input_dir))
\* (g1.csv, g2.csv, ... in this order for fewer than ten files), Branch
\* recomputed from the Roll read back, fillna(0).astype(int), Total, and the
\* columns Group, sorted branch columns, Total
make_summary(input_dir) ==
    LET n == Cardinality(DOMAIN input_dir)
        counts == [g \in 1..n |->
                     LET rolls == read_csv_Roll(input_dir[g])
                     IN ValueCounts([i \in 1..Len(rolls) |-> Branch(rolls[i])])]
        branch_cols == UNION {DOMAIN counts[g] : g \in 1..n}
        filled == [g \in 1..n |->
                     [b \in branch_cols |->
                        IF b \in DOMAIN counts[g] THEN counts[g][b] ELSE 0]]
        cols == SortStrings(branch_cols)
    IN [branch_cols |-> cols,
        rows |-> [g \in 1..n |-> [Group |-> g, counts |-> filled[g],
                                  Total |-> RowSum(filled[g], cols)]]]

\* the mix_dir argument: the script passes the round-robin directory, a
\* caller that ran the largest-remaining mixer alone passes its directory
\* for both sheets
mix_dir ==
    IF entry = "script" THEN outputs.group_branch_wise_mix
    ELSE outputs.group_uniform_mix

generate_combined_summary ==
    /\ pc = "generate_combined_summary"
    /\ outputs' = [outputs EXCEPT !.output_xlsx =
                      [Branchwise_Mix |-> make_summary(mix_dir),
                       Uniform_Mix |-> make_summary(outputs.group_uniform_mix)]]
    /\ pc' = "done"
    /\ UNCHANGED <<entry, roster, N, found_groups,
                   df, bw_files, group_sizes, branches,
                   branch_order, mix_groups, mix_group, mix_g, mix_files,
                   mix_status, branch_students, uni_groups, uni_group, uni_g,
                   remaining, branch, uni_files, uni_status>>
    /\ UNCHANGED allocvars

MixNext ==
    \/ Process
    \/ generate_branchwise
    \/ MixSetup
    \/ MixSweep
    \/ MixGroupDone
    \/ MixFillDone
    \/ MixExport
    \/ MixExportRaise
    \/ MixReturn
    \/ UniSetup
    \/ UniNextGroup
    \/ UniSelect
    \/ UniTake
    \/ UniGroupDone
    \/ UniFillDone
    \/ UniExport
    \/ UniReturn
    \/ generate_combined_summary

MixSpec == MixInit /\ [][MixNext]_vars

\* ------------------------------------------- the script run several times
\* the script's variables before "if st.button('Process')" is taken
FreshRun ==
    [df |-> <<>>, bw_files |-> <<>>, group_sizes |-> <<>>, branches |-> <<>>,
     branch_order |-> <<>>, mix_groups |-> <<>>, mix_group |-> <<>>,
     mix_g |-> 0, mix_files |-> <<>>, mix_status |-> "none",
     branch_students |-> <<>>, uni_groups |-> <<>>, uni_group |-> <<>>,
     uni_g |-> 0, remaining |-> 0, branch |-> <<>>, uni_files |-> <<>>,
     uni_status |-> "none"]

\* ------------------------------------------------ one run, to its end
MixLiveInit ==
    /\ AllocIdle
    /\ entry \in {"script", "generate_group_uniform_mix"}
    /\ roster \in LiveRosters
    /\ N \in 1..MaxLiveN
    /\ pc = "start"
    /\ df = FreshRun.df
    /\ bw_files = FreshRun.bw_files
    /\ group_sizes = FreshRun.group_sizes
    /\ branches = FreshRun.branches
    /\ branch_order = FreshRun.branch_order
    /\ mix_groups = FreshRun.mix_groups
    /\ mix_group = FreshRun.mix_group
    /\ mix_g = FreshRun.mix_g
    /\ mix_files = FreshRun.mix_files
    /\ mix_status = FreshRun.mix_status
    /\ branch_students = FreshRun.branch_students
    /\ uni_groups = FreshRun.uni_groups
    /\ uni_group = FreshRun.uni_group
    /\ uni_g = FreshRun.uni_g
    /\ remaining = FreshRun.remaining
    /\ branch = FreshRun.branch
    /\ uni_files = FreshRun.uni_files
    /\ uni_status = FreshRun.uni_status
    /\ outputs = NoOutputs
    /\ found_groups = 0

\* the run up to the return of the mixers (tut01.py lines 128-146)
MixersNext ==
    \/ Process
    \/ generate_branchwise
    \/ MixSetup
    \/ MixSweep
    \/ MixGroupDone
    \/ MixFillDone
    \/ MixExport
    \/ MixExportRaise
    \/ MixReturn
    \/ UniSetup
    \/ UniNextGroup
    \/ UniSelect
    \/ UniTake
    \/ UniGroupDone
    \/ UniFillDone
    \/ UniExport
    \/ UniReturn

\* the script is one thread that runs each statement after the other: a
\* step that can be taken is taken
MixFairSpec == MixLiveInit /\ [][MixersNext]_vars /\ WF_vars(MixersNext)

RerunInit ==
    /\ AllocIdle
    /\ entry = "script"
    /\ roster \in RerunRosters
    /\ N \in 1..MaxRerunN
    /\ pc = "start"
    /\ df = FreshRun.df
    /\ bw_files = FreshRun.bw_files
    /\ group_sizes = FreshRun.group_sizes
    /\ branches = FreshRun.branches
    /\ branch_order = FreshRun.branch_order
    /\ mix_groups = FreshRun.mix_groups
    /\ mix_group = FreshRun.mix_group
    /\ mix_g = FreshRun.mix_g
    /\ mix_files = FreshRun.mix_files
    /\ mix_status = FreshRun.mix_status
    /\ branch_students = FreshRun.branch_students
    /\ uni_groups = FreshRun.uni_groups
    /\ uni_group = FreshRun.uni_group
    /\ uni_g = FreshRun.uni_g
    /\ remaining = FreshRun.remaining
    /\ branch = FreshRun.branch
    /\ uni_files = FreshRun.uni_files
    /\ uni_status = FreshRun.uni_status
    /\ outputs = NoOutputs
    /\ found_groups = 0

\* a new upload and a new N, and Process pressed again after a run that
\* ended or raised: the script starts over, base_dir is what the last run
\* left on disk
Rerun ==
    /\ pc \in {"done", "aborted"}
    /\ entry = "script"
    /\ roster' \in RerunRosters
    /\ N' \in 1..MaxRerunN
    /\ pc' = "start"
    /\ df' = FreshRun.df
    /\ bw_files' = FreshRun.bw_files
    /\ group_sizes' = FreshRun.group_sizes
    /\ branches' = FreshRun.branches
    /\ branch_order' = FreshRun.branch_order
    /\ mix_groups' = FreshRun.mix_groups
    /\ mix_group' = FreshRun.mix_group
    /\ mix_g' = FreshRun.mix_g
    /\ mix_files' = FreshRun.mix_files
    /\ mix_status' = FreshRun.mix_status
    /\ branch_students' = FreshRun.branch_students
    /\ uni_groups' = FreshRun.uni_groups
    /\ uni_group' = FreshRun.uni_group
    /\ uni_g' = FreshRun.uni_g
    /\ remaining' = FreshRun.remaining
    /\ branch' = FreshRun.branch
    /\ uni_files' = FreshRun.uni_files
    /\ uni_status' = FreshRun.uni_status
    /\ found_groups' = Cardinality(DOMAIN outputs.group_uniform_mix)
    /\ UNCHANGED <<entry, outputs>>
    /\ UNCHANGED allocvars

RerunNext ==
    \/ MixNext
    \/ Rerun

RerunSpec == RerunInit /\ [][RerunNext]_vars

\* ===================================================== allocate_students
AllocInit ==
    /\ MixIdle
    /\ \E F \in 1..MaxF :
          /\ faculty_columns = SubSeq(FacultyNames, 1, F)
          /\ \E n \in 0..MaxStudents :
                \E c \in CGPAColumns(n) :
                   \E p \in [1..n -> PrefRows(SubSeq(FacultyNames, 1, F))] :
                      input_df = [i \in 1..n |-> [CGPA |-> c[i], prefs |-> p[i]]]
    /\ df_sorted = <<>>
    /\ allocated = <<>>
    /\ faculty_preference_stats = <<>>
    /\ cycle = 0
    /\ student_idx = 0
    /\ faculties_allocated_in_cycle = {}
    /\ faculties_allocated_in_partial = {}
    /\ output_df = <<>>
    /\ pref_stats_df = <<>>
    /\ apc = "start"

n_faculties == Len(faculty_columns)
n_students == Len(input_df)
n_complete_cycles == n_students \div n_faculties
n_remaining == n_students % n_faculties

\* df.sort_values('CGPA', ascending=False).reset_index(drop=True): the
\* default sort kind is quicksort, which gives no order among equal CGPAs,
\* so every CGPA-descending arrangement of the rows is a possible result
RECURSIVE SortedOrders(_, _)
SortedOrders(t, ids) ==
    IF ids = {} THEN {<<>>}
    ELSE UNION {{<<i>> \o rest : rest \in SortedOrders(t, ids \ {i})} :
                  i \in {i \in ids : \A j \in ids : t[i].CGPA >= t[j].CGPA}}

SortedTables(t) ==
    {[i \in 1..Len(t) |-> [id |-> p[i], CGPA |-> t[p[i]].CGPA, prefs |-> t[p[i]].prefs]] :
       p \in SortedOrders(t, 1..Len(t))}

\* {fac: {f'Pref {i+1}': 0 for i in range(n_faculties)} for fac in faculty_columns}
ZeroStats(cols) == [fac \in Range(cols) |-> [k \in 1..Len(cols) |-> 0]]

AllocLoad ==
    /\ apc = "start"
    /\ df_sorted' \in SortedTables(input_df)
    /\ allocated' = <<>>
    /\ faculty_preference_stats' = ZeroStats(faculty_columns)
    /\ cycle' = 0
    /\ apc' = "cycles"
    /\ UNCHANGED <<input_df, faculty_columns, student_idx,
                   faculties_allocated_in_cycle, faculties_allocated_in_partial,
                   output_df, pref_stats_df>>
    /\ UNCHANGED mixvars

NotFound == [found |-> FALSE, faculty |-> "", pref_num |-> 0]

RECURSIVE ScanFaculties_anytaken(_, _, _, _, _)
ScanFaculties_anytaken(student_row, pref_num, taken, cols, j) ==
    IF j > Len(cols) THEN NotFound
    ELSE IF student_row.prefs[cols[j]] = pref_num
         THEN [found |-> TRUE, faculty |-> cols[j], pref_num |-> pref_num]
         ELSE ScanFaculties_anytaken(student_row, pref_num, taken, cols, j + 1)

RECURSIVE ScanFaculties_lastcol(_, _, _, _, _)
ScanFaculties_lastcol(student_row, pref_num, taken, cols, j) ==
    IF j > Len(cols) THEN NotFound
    ELSE LET c == cols[Len(cols) + 1 - j]
         IN IF student_row.prefs[c] = pref_num /\ c \notin taken
            THEN [found |-> TRUE, faculty |-> c, pref_num |-> pref_num]
            ELSE ScanFaculties_lastcol(student_row, pref_num, taken, cols, j + 1)

\* for faculty in faculty_columns: the first column from position j on that
\* holds pref_num and is not in the taken set
RECURSIVE ScanFaculties(_, _, _, _, _)
ScanFaculties(student_row, pref_num, taken, cols, j) ==
    IF j > Len(cols) THEN NotFound
    ELSE IF student_row.prefs[cols[j]] = pref_num /\ cols[j] \notin taken
         THEN [found |-> TRUE, faculty |-> cols[j], pref_num |-> pref_num]
         ELSE ScanFaculties(student_row, pref_num, taken, cols, j + 1)

RECURSIVE ScanPrefs_short(_, _, _, _)
ScanPrefs_short(student_row, taken, cols, pref_num) ==
    IF pref_num > Len(cols) - 1 THEN NotFound
    ELSE LET r == ScanFaculties(student_row, pref_num, taken, cols, 1)
         IN IF r.found THEN r
            ELSE ScanPrefs_short(student_row, taken, cols, pref_num + 1)

RECURSIVE ScanPrefs_desc(_, _, _, _)
ScanPrefs_desc(student_row, taken, cols, pref_num) ==
    IF pref_num > Len(cols) THEN NotFound
    ELSE LET r == ScanFaculties(student_row, Len(cols) + 1 - pref_num, taken, cols, 1)
         IN IF r.found THEN r
            ELSE ScanPrefs_desc(student_row, taken, cols, pref_num + 1)

\* for pref_num in range(1, n_faculties + 1), left at the first allocation
RECURSIVE ScanPrefs(_, _, _, _)
ScanPrefs(student_row, taken, cols, pref_num) ==
    IF pref_num > Len(cols) THEN NotFound
    ELSE LET r == ScanFaculties(student_row, pref_num, taken, cols, 1)
         IN IF r.found THEN r
            ELSE ScanPrefs(student_row, taken, cols, pref_num + 1)

BumpStats_first(stats, r) ==
    IF r.found
    THEN [stats EXCEPT ![r.faculty][1] = @ + 1]
    ELSE stats

\* faculty_preference_stats[faculty][f'Pref {pref_num}'] += 1
BumpStats(stats, r) ==
    IF r.found
    THEN [stats EXCEPT ![r.faculty][r.pref_num] = @ + 1]
    ELSE stats

\* allocated[student_idx] = faculty
Allocate(alloc, idx, r) ==
    IF r.found THEN alloc @@ (idx :> r.faculty) ELSE alloc

CycleStart ==
    /\ apc = "cycles"
    /\ cycle < n_complete_cycles
    /\ faculties_allocated_in_cycle' = {}
    /\ student_idx' = cycle * n_faculties
    /\ apc' = "cycle"
    /\ UNCHANGED <<input_df, faculty_columns, df_sorted, allocated,
                   faculty_preference_stats, cycle,
                   faculties_allocated_in_partial, output_df, pref_stats_df>>
    /\ UNCHANGED mixvars

CycleStudent ==
    /\ apc = "cycle"
    /\ student_idx < (cycle + 1) * n_faculties
    /\ LET r == ScanPrefs(df_sorted[student_idx + 1],
                          faculties_allocated_in_cycle, faculty_columns, 1)
       IN /\ allocated' = Allocate(allocated, student_idx, r)
          /\ faculty_preference_stats' = BumpStats(faculty_preference_stats, r)
          /\ faculties_allocated_in_cycle' =
                IF r.found THEN faculties_allocated_in_cycle \cup {r.faculty}
                ELSE faculties_allocated_in_cycle
    /\ student_idx' = student_idx + 1
    /\ UNCHANGED <<input_df, faculty_columns, df_sorted, cycle,
                   faculties_allocated_in_partial, output_df, pref_stats_df,
                   apc>>
    /\ UNCHANGED mixvars

CycleEnd ==
    /\ apc = "cycle"
    /\ student_idx = (cycle + 1) * n_faculties
    /\ cycle' = cycle + 1
    /\ apc' = "cycles"
    /\ UNCHANGED <<input_df, faculty_columns, df_sorted, allocated,
                   faculty_preference_stats, student_idx,
                   faculties_allocated_in_cycle,
                   faculties_allocated_in_partial, output_df, pref_stats_df>>
    /\ UNCHANGED mixvars

PartialStart ==
    /\ apc = "cycles"
    /\ cycle = n_complete_cycles
    /\ n_remaining > 0
    /\ faculties_allocated_in_partial' = {}
    /\ student_idx' = n_complete_cycles * n_faculties
    /\ apc' = "partial"
    /\ UNCHANGED <<input_df, faculty_columns, df_sorted, allocated,
                   faculty_preference_stats, cycle,
                   faculties_allocated_in_cycle, output_df, pref_stats_df>>
    /\ UNCHANGED mixvars

PartialStudent_nomark ==
    /\ apc = "partial"
    /\ student_idx < n_students
    /\ LET r == ScanPrefs(df_sorted[student_idx + 1],
                          faculties_allocated_in_partial, faculty_columns, 1)
       IN /\ allocated' = Allocate(allocated, student_idx, r)
          /\ faculty_preference_stats' = BumpStats(faculty_preference_stats, r)
    /\ student_idx' = student_idx + 1
    /\ UNCHANGED <<input_df, faculty_columns, df_sorted, cycle,
                   faculties_allocated_in_cycle, faculties_allocated_in_partial,
                   output_df, pref_stats_df, apc>>
    /\ UNCHANGED mixvars

PartialStudent ==
    /\ apc = "partial"
    /\ student_idx < n_students
    /\ LET r == ScanPrefs(df_sorted[student_idx + 1],
                          faculties_allocated_in_partial, faculty_columns, 1)
       IN /\ allocated' = Allocate(allocated, student_idx, r)
          /\ faculty_preference_stats' = BumpStats(faculty_preference_stats, r)
          /\ faculties_allocated_in_partial' =
                IF r.found THEN faculties_allocated_in_partial \cup {r.faculty}
                ELSE faculties_allocated_in_partial
    /\ student_idx' = student_idx + 1
    /\ UNCHANGED <<input_df, faculty_columns, df_sorted, cycle,
                   faculties_allocated_in_cycle, output_df, pref_stats_df,
                   apc>>
    /\ UNCHANGED mixvars

\* df_sorted.index.map(lambda idx: allocated.get(idx, 'UNALLOCATED'))
AllocatedColumn(alloc, idx) ==
    IF idx \in DOMAIN alloc THEN alloc[idx] ELSE "UNALLOCATED"

OutputTable(t, alloc) ==
    [i \in 1..Len(t) |-> [id |-> t[i].id, CGPA |-> t[i].CGPA,
                          Allocated |-> AllocatedColumn(alloc, i - 1)]]

\* one row per faculty: Fac, Count Pref 1 .. Count Pref n
StatsTable(cols, stats) ==
    [j \in 1..Len(cols) |-> [Fac |-> cols[j],
                             Count |-> [k \in 1..Len(cols) |-> stats[cols[j]][k]]]]

AllocOutput ==
    /\ \/ apc = "cycles" /\ cycle = n_complete_cycles /\ n_remaining = 0
       \/ apc = "partial" /\ student_idx = n_students
    /\ output_df' = OutputTable(df_sorted, allocated)
    /\ pref_stats_df' = StatsTable(faculty_columns, faculty_preference_stats)
    /\ apc' = "returned"
    /\ UNCHANGED <<input_df, faculty_columns, df_sorted, allocated,
                   faculty_preference_stats, cycle, student_idx,
                   faculties_allocated_in_cycle,
                   faculties_allocated_in_partial>>
    /\ UNCHANGED mixvars

AllocNext ==
    \/ AllocLoad
    \/ CycleStart
    \/ CycleStudent
    \/ CycleEnd
    \/ PartialStart
    \/ PartialStudent
    \/ AllocOutput

AllocSpec == AllocInit /\ [][AllocNext]_vars

\* ================================================================ claims
\* positions (table, row) of a list of tables
Cells(tabs) == UNION {{<<g, j>> : j \in 1..Len(tabs[g].rows)} : g \in 1..Len(tabs)}

\* how often the uploaded row i occurs in a list of tables
Occurrences(i, tabs) ==
    Cardinality({c \in Cells(tabs) : tabs[c[1]].rows[c[2]].id = i})

\* the tables hold every uploaded row exactly once, unchanged
ExactlyTheRoster(tabs) ==
    /\ \A i \in 1..Len(roster) : Occurrences(i, tabs) = 1
    /\ \A c \in Cells(tabs) :
          LET row == tabs[c[1]].rows[c[2]]
          IN row.id \in 1..Len(roster) /\ row.Roll = roster[row.id]

MixFinished == mix_status \in {"returned", "raised"}
MixFilled == mix_status # "none" /\ mix_g = N
UniFilled == uni_status # "none" /\ uni_g = N

\* C1: whenever the round-robin mixer has finished, it has produced exactly
\* N group tables, and every uploaded row is in exactly one of them, once.
C1_RoundRobinPartition ==
    MixFinished => Len(mix_files) = N /\ ExactlyTheRoster(mix_files)

\* C2: whenever the largest-remaining mixer has returned, it has produced
\* exactly N group tables, and every uploaded row is in exactly one of
\* them, once.
C2_LargestRemainingPartition ==
    uni_status = "returned" => Len(uni_files) = N /\ ExactlyTheRoster(uni_files)

C2_Witness ==
    /\ uni_status = "returned"
    /\ Len(roster) = 5
    /\ N = 3
    /\ Len(uni_files) = 3
    /\ Cardinality(Range(BranchCol(df))) = 3

\* the size the claim gives the group at 0-based index i
ClaimedSize(i) ==
    IF i < Len(roster) % N THEN (Len(roster) \div N) + 1 ELSE Len(roster) \div N

\* C3: when a mixer has filled its last group, the group at 0-based index i
\* holds q+1 rows if i < r and q rows otherwise, with q, r = divmod(S, N);
\* the group tables written so far have the same sizes; and the sizes
\* computed for 7 students and 3 groups are [3, 2, 2].
C3_GroupSizes ==
    /\ GroupSizes(7, 3) = <<3, 2, 2>>
    /\ MixFilled =>
          /\ Len(mix_groups) = N
          /\ \A i \in 0..(N - 1) : Len(mix_groups[i + 1]) = ClaimedSize(i)
          /\ \A k \in 1..Len(mix_files) : Len(mix_files[k].rows) = ClaimedSize(k - 1)
    /\ UniFilled =>
          /\ Len(uni_groups) = N
          /\ \A i \in 0..(N - 1) : Len(uni_groups[i + 1]) = ClaimedSize(i)
          /\ \A k \in 1..Len(uni_files) : Len(uni_files[k].rows) = ClaimedSize(k - 1)

C3_Witness ==
    /\ pc = "done"
    /\ entry = "script"
    /\ Len(roster) = 5
    /\ N = 3
    /\ [i \in 1..3 |-> Len(mix_groups[i])] = <<2, 2, 1>>
    /\ [i \in 1..3 |-> Len(uni_groups[i])] = <<2, 2, 1>>

\* C7: once the branch partitioner has run, there is one table per distinct
\* branch value, each table holds rows of its own branch only, every
\* uploaded row is in exactly one table, once, and the rows of a table are
\* in roster order.
BranchwiseDone == entry = "script" /\ pc \notin {"start", "generate_branchwise"}

C7_BranchPartition ==
    BranchwiseDone =>
       /\ DOMAIN bw_files = {Branch(roster[i]) : i \in 1..Len(roster)}
       /\ \A b \in DOMAIN bw_files :
             /\ bw_files[b].rows # <<>>
             /\ \A j \in 1..Len(bw_files[b].rows) :
                   Branch(bw_files[b].rows[j].Roll) = b
             /\ \A j, k \in 1..Len(bw_files[b].rows) :
                   j < k => bw_files[b].rows[j].id < bw_files[b].rows[k].id
       /\ \A i \in 1..Len(roster) :
             /\ bw_files[Branch(roster[i])].rows # <<>>
             /\ Cardinality({j \in 1..Len(bw_files[Branch(roster[i])].rows) :
                               bw_files[Branch(roster[i])].rows[j].id = i}) = 1
             /\ \A b \in DOMAIN bw_files : \A j \in 1..Len(bw_files[b].rows) :
                   bw_files[b].rows[j].id = i =>
                      b = Branch(roster[i]) /\ bw_files[b].rows[j].Roll = roster[i]

C7_Witness ==
    /\ BranchwiseDone
    /\ Cardinality(DOMAIN bw_files) = 3
    /\ \E b \in DOMAIN bw_files :
          /\ Len(bw_files[b].rows) = 2
          /\ bw_files[b].rows[1].id + 1 < bw_files[b].rows[2].id

\* every two rows of the same branch are in roster order in the sequence
SameBranchInOrder(rows) ==
    \A j, k \in 1..Len(rows) :
        (j < k /\ Branch(rows[j].Roll) = Branch(rows[k].Roll))
            => rows[j].id < rows[k].id

\* C8: in every group of the round-robin mixer (being filled, completed, or
\* written out) two students of the same branch are in roster order.
C8_RoundRobinBranchOrder ==
    /\ SameBranchInOrder(mix_group)
    /\ \A g \in 1..Len(mix_groups) : SameBranchInOrder(mix_groups[g])
    /\ \A g \in 1..Len(mix_files) : SameBranchInOrder(mix_files[g].rows)

C8_Witness ==
    /\ mix_status = "returned"
    /\ \E g \in 1..Len(mix_files) : \E j, k \in 1..Len(mix_files[g].rows) :
          /\ j + 1 < k
          /\ Branch(mix_files[g].rows[j].Roll) = Branch(mix_files[g].rows[k].Roll)
          /\ Branch(mix_files[g].rows[j].Roll) # Branch(mix_files[g].rows[j + 1].Roll)

\* C9: at every selection step of the largest-remaining mixer the chosen
\* branch has at least as many remaining students as every branch still
\* in the map.
C9_LargestChosen ==
    pc = "uni_take" =>
       /\ branch \in DOMAIN branch_students
       /\ \A b \in DOMAIN branch_students :
             Len(branch_students[branch]) >= Len(branch_students[b])

C9_Witness ==
    /\ pc = "uni_take"
    /\ Cardinality(DOMAIN branch_students) = 3
    /\ \E b \in DOMAIN branch_students :
          Len(branch_students[branch]) > Len(branch_students[b])
    /\ uni_g > 0

\* the last n tables of a list are empty
LastEmpty(tabs, n) == \A k \in (Len(tabs) - n + 1)..Len(tabs) : tabs[k].rows = <<>>

\* C10: with fewer students than groups neither mixer raises, and a mixer
\* that has finished has written N group tables, the last N-S of them empty.
C10_EmptyGroupsValid ==
    Len(roster) < N =>
       /\ mix_status # "raised"
       /\ uni_status # "raised"
       /\ mix_status = "returned" =>
             Len(mix_files) = N /\ LastEmpty(mix_files, N - Len(roster))
       /\ uni_status = "returned" =>
             Len(uni_files) = N /\ LastEmpty(uni_files, N - Len(roster))

\* ---------------------------------------------- allocator claims
Faculties == Range(faculty_columns)

\* the row's faculty columns hold a permutation of 1..F
IsPermutation(prefs) ==
    /\ \A f \in Faculties : prefs[f] \in 1..n_faculties
    /\ \A f, h \in Faculties : f # h => prefs[f] # prefs[h]

AllPermutations == \A i \in 1..Len(input_df) : IsPermutation(input_df[i].prefs)

\* sorted indices (0-based) of cycle k
CycleIndices(k) == (k * n_faculties)..((k + 1) * n_faculties - 1)

\* C4: with permutation preferences, every complete cycle that has been
\* processed gave each faculty to exactly one student of the cycle.
C4_CompleteCycleCoversFaculties ==
    (apc # "idle" /\ AllPermutations) =>
       \A k \in 0..(cycle - 1) : \A f \in Faculties :
          Cardinality({i \in CycleIndices(k) :
                         i \in DOMAIN allocated /\ allocated[i] = f}) = 1

C4_Witness ==
    /\ apc = "returned"
    /\ AllPermutations
    /\ n_faculties = 2
    /\ cycle = 2
    /\ df_sorted[1].prefs = df_sorted[2].prefs
    /\ df_sorted[3].prefs # df_sorted[4].prefs

\* C5: with permutation preferences, every student processed so far has
\* been allocated, and the returned table names a faculty in every row.
C5_NoUnallocated ==
    (apc # "idle" /\ AllPermutations) =>
       /\ apc \in {"cycle", "partial"} =>
             \A i \in 0..(student_idx - 1) : i \in DOMAIN allocated
       /\ apc = "returned" =>
             /\ Len(output_df) = n_students
             /\ \A i \in 1..Len(output_df) : output_df[i].Allocated \in Faculties

C5_Witness ==
    /\ apc = "returned"
    /\ AllPermutations
    /\ n_faculties = 2
    /\ n_students = 3
    /\ df_sorted[1].prefs = df_sorted[2].prefs
    /\ output_df[3].Allocated = "F2"

RECURSIVE SumCounts(_, _)
SumCounts(tab, k) ==
    IF tab = <<>> THEN 0 ELSE Head(tab).Count[k] + SumCounts(Tail(tab), k)

\* rows of the returned table allocated to a faculty they declared at rank k
AllocatedAtRank(k) ==
    {i \in 1..Len(output_df) :
        /\ output_df[i].Allocated # "UNALLOCATED"
        /\ df_sorted[i].prefs[output_df[i].Allocated] = k}

RECURSIVE SumOver(_, _)
SumOver(tab, n) == IF n = 0 THEN 0 ELSE SumCounts(tab, n) + SumOver(tab, n - 1)

\* C6: in the returned tables, for every rank k the 'Count Pref k' column
\* adds up to the number of students allocated to a faculty they declared at
\* rank k, and the whole matrix adds up to the number of allocated students.
C6_StatsMatchAllocation ==
    apc = "returned" =>
       /\ \A k \in 1..n_faculties :
             SumCounts(pref_stats_df, k) = Cardinality(AllocatedAtRank(k))
       /\ SumOver(pref_stats_df, n_faculties) =
             Cardinality({i \in 1..Len(output_df) :
                            output_df[i].Allocated # "UNALLOCATED"})

C6_Witness ==
    /\ apc = "returned"
    /\ n_faculties = 2
    /\ n_students = 4
    /\ Cardinality(AllocatedAtRank(1)) = 2
    /\ Cardinality(AllocatedAtRank(2)) = 1
    /\ \E i \in 1..4 : output_df[i].Allocated = "UNALLOCATED"

\* the rows are in CGPA-descending order and rows of equal CGPA are in
\* their input order
StablySorted(t) ==
    \A i, j \in 1..Len(t) :
        i < j => \/ t[i].CGPA > t[j].CGPA
                 \/ (t[i].CGPA = t[j].CGPA /\ t[i].id < t[j].id)

\* C12: once the roster is sorted it is in CGPA-descending order with equal
\* CGPAs in input order, and the returned table lists the students in that
\* same order.
C12_StableSort ==
    /\ apc \notin {"idle", "start"} =>
          Len(df_sorted) = n_students /\ StablySorted(df_sorted)
    /\ apc = "returned" =>
          /\ StablySorted(output_df)
          /\ \A i \in 1..Len(output_df) : output_df[i].id = df_sorted[i].id

\* 0-based sorted indices of the students the loops have gone through
Processed ==
    IF apc \in {"cycle", "partial"} THEN 0..(student_idx - 1)
    ELSE IF apc = "cycles" THEN 0..(cycle * n_faculties - 1)
    ELSE IF apc = "returned" THEN 0..(n_students - 1)
    ELSE {}

\* faculties given to students that precede student i in i's cycle
TakenBefore(i) ==
    {allocated[k] : k \in {k \in DOMAIN allocated :
                             k < i /\ k \div n_faculties = i \div n_faculties}}

\* faculties still free for student i that carry a declared rank in 1..F
FreeRanked(i) ==
    {f \in Faculties \ TakenBefore(i) :
        df_sorted[i + 1].prefs[f] \in 1..n_faculties}

\* faculties given to the students of cycle c so far
TakenIn(c) ==
    {allocated[k] : k \in {k \in DOMAIN allocated : k \div n_faculties = c}}

ColumnOf(f) == CHOOSE j \in 1..n_faculties : faculty_columns[j] = f

\* f comes before h for student i: smaller rank, or equal rank and an
\* earlier faculty column
Preferred(i, f, h) ==
    LET p == df_sorted[i + 1].prefs
    IN \/ p[f] < p[h]
       \/ p[f] = p[h] /\ ColumnOf(f) <= ColumnOf(h)

\* C16: every processed student holds the free faculty of smallest declared
\* rank in 1..F (equal ranks by column order) and is without a faculty
\* exactly when no ranked faculty was free; the cycle's taken set holds
\* exactly the faculties given out in it, and each statistic counts the
\* allocations of that faculty at that rank.
C16_AssignmentRule ==
    /\ DOMAIN allocated \subseteq Processed
    /\ \A i \in Processed :
          /\ i \in DOMAIN allocated <=> FreeRanked(i) # {}
          /\ i \in DOMAIN allocated =>
                /\ allocated[i] \in FreeRanked(i)
                /\ \A h \in FreeRanked(i) : Preferred(i, allocated[i], h)
    /\ apc = "cycle" => faculties_allocated_in_cycle = TakenIn(cycle)
    /\ apc = "partial" => faculties_allocated_in_partial = TakenIn(n_complete_cycles)
    /\ apc \in {"cycles", "cycle", "partial", "returned"} =>
          \A f \in Faculties : \A k \in 1..n_faculties :
             faculty_preference_stats[f][k] =
                Cardinality({i \in DOMAIN allocated :
                               allocated[i] = f /\ df_sorted[i + 1].prefs[f] = k})

\* the returned allocation has a student settled on a tie of ranks by column
\* order, a student given a second choice, and a student left without one
C16_Witness ==
    /\ apc = "returned"
    /\ n_faculties = 3
    /\ n_students = 4
    /\ \E i \in DOMAIN allocated :
          \E h \in FreeRanked(i) \ {allocated[i]} :
             df_sorted[i + 1].prefs[h] = df_sorted[i + 1].prefs[allocated[i]]
    /\ \E i \in DOMAIN allocated : df_sorted[i + 1].prefs[allocated[i]] = 2
    /\ \E i \in 0..3 : i \notin DOMAIN allocated

\* 0-based sorted indices of the partial final cycle
PartialIndices == (n_complete_cycles * n_faculties)..(n_students - 1)

\* faculties given to a student of the partial final cycle
PartialFaculties ==
    {allocated[i] : i \in PartialIndices \cap DOMAIN allocated}

\* C19: with S mod F > 0 the partial cycle is the last S mod F students of
\* the sorted table, no faculty is given to two of them, and at most S mod F
\* (fewer than F) faculties receive one of them.
C19_PartialCycleOnePerFaculty ==
    (apc \in {"partial", "returned"} /\ n_remaining > 0) =>
       /\ Cardinality(PartialIndices) = n_remaining
       /\ apc = "partial" => student_idx \in PartialIndices \cup {n_students}
       /\ \A i, j \in PartialIndices \cap DOMAIN allocated :
             allocated[i] = allocated[j] => i = j
       /\ Cardinality(PartialFaculties) <= n_remaining
       /\ n_remaining < n_faculties

\* two students with the same preferences went through a partial cycle of
\* three faculties and hold two different faculties
C19_Witness ==
    /\ apc = "returned"
    /\ n_faculties = 3
    /\ n_students = 2
    /\ df_sorted[1].prefs = df_sorted[2].prefs
    /\ Cardinality(PartialFaculties) = 2

\* branches still in the map whose queue is as long as the chosen one's
TiedWithChosen ==
    {b \in DOMAIN branch_students :
        Len(branch_students[b]) = Len(branch_students[branch])}

\* C17 as stated: at every selection step of the largest-remaining mixer
\* the chosen branch is the lexicographically smallest of the branches tied
\* for the largest remaining queue.
C17_TieBreakAscending ==
    pc = "uni_take" =>
       \A b \in TiedWithChosen : b = branch \/ StrLess(branch, b)

\* C17 as the code behaves: at every selection step the chosen branch has a
\* longest remaining queue and is the lexicographically largest of the
\* branches tied for it.
C17_TieBreakDescending ==
    pc = "uni_take" =>
       /\ branch \in DOMAIN branch_students
       /\ \A b \in DOMAIN branch_students :
             Len(branch_students[b]) <= Len(branch_students[branch])
       /\ \A b \in TiedWithChosen : b = branch \/ StrLess(b, branch)

\* a selection among three branches with equally long queues
C17_Witness ==
    /\ pc = "uni_take"
    /\ Cardinality(TiedWithChosen) = 3
    /\ Len(branch_students[branch]) = 2

\* number of rows of branch b in a group
CountOf(grp, b) == Len(RowsOf(grp, b))

\* C18: when the largest-remaining mixer has returned, every group holds
\* floor(|b|/N) or ceil(|b|/N) students of every branch b of the roster.
C18_BalancedBranches ==
    uni_status = "returned" =>
       \A b \in Range(BranchCol(df)) : \A g \in 1..Len(uni_groups) :
          LET size == CountOf(df, b)
              have == CountOf(uni_groups[g], b)
          IN  /\ size \div N <= have
              /\ have <= (size + N - 1) \div N

\* C20: a group table written by the largest-remaining mixer is empty only
\* when S < N, and an empty one has the roster's columns without Branch, as
\* the non-empty ones have.
C20_EmptyGroupColumns ==
    \A g \in 1..Len(uni_files) :
       /\ uni_files[g].rows # <<>> => uni_files[g].columns = <<"Roll">>
       /\ uni_files[g].rows = <<>> =>
             /\ Len(roster) < N
             /\ uni_files[g].columns = <<"Roll">>

\* a Roll value too short to have characters 4 and 5
ShortRoll(r) == \E i \in 1..Len(r) : Len(r[i]) < 6

\* C14: a roster with a Roll shorter than 6 characters is never loaded and
\* yields no branch or group output, and no loaded row carries a Branch
\* code shorter than 2 characters.
C14_ShortRollRejected ==
    /\ ShortRoll(roster) =>
          /\ df = <<>>
          /\ bw_files = <<>> /\ mix_files = <<>> /\ uni_files = <<>>
    /\ \A i \in 1..Len(df) : Len(df[i].Branch) = 2

\* rows of a written group table whose Roll[4:6] is b
RowsOfBranch(table, b) ==
    {i \in 1..Len(table.rows) : PySlice(table.rows[i].Roll, 4, 6) = b}

RECURSIVE SumOfCounts(_, _)
SumOfCounts(counts, bs) ==
    IF bs = {} THEN 0
    ELSE LET b == CHOOSE x \in bs : TRUE
         IN counts[b] + SumOfCounts(counts, bs \ {b})

RECURSIVE SumOfTotals(_)
SumOfTotals(rows) ==
    IF rows = <<>> THEN 0 ELSE Head(rows).Total + SumOfTotals(Tail(rows))

\* the sheet summarizes the group tables files, one row per group
SummaryOf(sheet, files) ==
    /\ Len(sheet.rows) = Len(files)
    /\ \A g \in 1..Len(files) :
          LET row == sheet.rows[g]
              cols == Range(sheet.branch_cols)
          IN /\ row.Group = g
             /\ DOMAIN row.counts = cols
             /\ \A b \in cols :
                   /\ row.counts[b] \in Nat
                   /\ row.counts[b] = Cardinality(RowsOfBranch(files[g], b))
             /\ \A i \in 1..Len(files[g].rows) :
                   PySlice(files[g].rows[i].Roll, 4, 6) \in cols
             /\ row.Total = SumOfCounts(row.counts, cols)
             /\ row.Total = Len(files[g].rows)
    /\ SumOfTotals(sheet.rows) = Len(roster)

\* C13: when the script has written the summary workbook, each sheet has one
\* row per group of its mixer whose branch columns count the group's rows by
\* Roll[4:6] (0 for a branch absent from the group), whose Total is the sum
\* of the branch columns and the group's row count, and the Totals of a
\* sheet add up to the roster size.
C13_SummaryCounts ==
    (entry = "script" /\ pc = "done") =>
       /\ SummaryOf(outputs.output_xlsx.Branchwise_Mix, mix_files)
       /\ SummaryOf(outputs.output_xlsx.Uniform_Mix, uni_files)

\* a summary of three groups over three branches, with a zero count and a
\* count of two in the largest-remaining sheet
C13_Witness ==
    /\ entry = "script"
    /\ pc = "done"
    /\ N = 3
    /\ Len(outputs.output_xlsx.Uniform_Mix.branch_cols) = 3
    /\ \E g \in 1..3 : \E b, c \in Range(outputs.output_xlsx.Uniform_Mix.branch_cols) :
          /\ outputs.output_xlsx.Uniform_Mix.rows[g].counts[b] = 0
          /\ outputs.output_xlsx.Uniform_Mix.rows[g].counts[c] = 2
    /\ \E g \in 1..3 : \E b \in Range(outputs.output_xlsx.Branchwise_Mix.branch_cols) :
          outputs.output_xlsx.Branchwise_Mix.rows[g].counts[b] = 0

\* C15: whenever a run of the script has ended, however many runs came
\* before it, base_dir holds exactly what this run wrote: one branch file
\* per branch of this roster, the group files g1..gN of each mixer with this
\* run's tables, and this run's summary of N groups per sheet.
C15_FreshOutputs ==
    (entry = "script" /\ pc = "done") =>
       /\ DOMAIN outputs.full_branchwise = {PySlice(roster[i], 4, 6) : i \in 1..Len(roster)}
       /\ outputs.full_branchwise = bw_files
       /\ DOMAIN outputs.group_branch_wise_mix = 1..N
       /\ \A g \in 1..N : outputs.group_branch_wise_mix[g] = mix_files[g]
       /\ DOMAIN outputs.group_uniform_mix = 1..N
       /\ \A g \in 1..N : outputs.group_uniform_mix[g] = uni_files[g]
       /\ Len(outputs.output_xlsx.Branchwise_Mix.rows) = N
       /\ Len(outputs.output_xlsx.Uniform_Mix.rows) = N

\* a run with one group and one branch has ended where the directory held
\* two group files per mixer when Process was pressed
C15_Witness ==
    /\ entry = "script"
    /\ pc = "done"
    /\ found_groups = 2
    /\ N = 1
    /\ Len(roster) = 1
    /\ DOMAIN outputs.group_uniform_mix = {1}

\* faculty f went to a student that precedes student i in i's cycle
TakenByEarlier(i, f) ==
    \E k \in DOMAIN allocated :
       /\ k < i
       /\ k \div n_faculties = i \div n_faculties
       /\ allocated[k] = f

\* C24: a processed student who holds a faculty ranked p finds every faculty
\* they ranked in 1..p-1 held by an earlier student of the same cycle, and a
\* processed student without a faculty finds every faculty they ranked in
\* 1..F held by an earlier student of the same cycle.
C24_NoJustifiedEnvy ==
    \A i \in Processed :
       LET prefs == df_sorted[i + 1].prefs
       IN IF i \in DOMAIN allocated
          THEN \A f \in Faculties :
                  (prefs[f] >= 1 /\ prefs[f] < prefs[allocated[i]]) =>
                     TakenByEarlier(i, f)
          ELSE \A f \in Faculties :
                  prefs[f] \in 1..n_faculties => TakenByEarlier(i, f)

\* a returned allocation with a student on their second choice and a student
\* left without a faculty although they ranked some
C24_Witness ==
    /\ apc = "returned"
    /\ n_faculties = 2
    /\ \E i \in DOMAIN allocated : df_sorted[i + 1].prefs[allocated[i]] = 2
    /\ \E i \in Processed \ DOMAIN allocated :
          \E f \in Faculties : df_sorted[i + 1].prefs[f] \in 1..n_faculties

\* same-branch students of an earlier group precede those of a later group
\* in the roster
FifoAcross(groups) ==
    \A i, j \in 1..Len(groups) :
       i < j =>
          \A a \in 1..Len(groups[i]) : \A b \in 1..Len(groups[j]) :
             Branch(groups[i][a].Roll) = Branch(groups[j][b].Roll)
                => groups[i][a].id < groups[j][b].id

\* the students of branch b placed so far, in placement order, are the
\* first ones of the branch in the roster and queue holds the others
FrontToBack(groups, b, queue) ==
    LET placed == [g \in 1..Len(groups) |-> RowsOf(groups[g], b)]
        ids(rows) == [k \in 1..Len(rows) |-> rows[k].id]
        RECURSIVE Concat(_)
        Concat(ss) == IF ss = <<>> THEN <<>> ELSE Head(ss) \o Concat(Tail(ss))
    IN ids(Concat(placed) \o queue) = ids(RowsOf(df, b))

\* groups of the largest-remaining mixer so far, the one being filled last
UniPlaced ==
    IF pc \in {"uni_while", "uni_take"}
    THEN Append(uni_groups, uni_group) ELSE uni_groups

\* C25: in both mixers, at every step, same-branch students of an earlier
\* group precede those of a later group in the roster, and the students
\* placed so far from each branch followed by the branch's queue are the
\* branch's students in roster order.
C25_FifoAcrossGroups ==
    /\ FifoAcross(Append(mix_groups, mix_group))
    /\ FifoAcross(UniPlaced)
    /\ pc = "mix_fill" =>
          \A b \in DOMAIN branches :
             FrontToBack(Append(mix_groups, mix_group), b, branches[b])
    /\ pc \in {"uni_for", "uni_while", "uni_take"} =>
          \A b \in Range(BranchCol(df)) :
             FrontToBack(UniPlaced, b,
                         IF b \in DOMAIN branch_students
                         THEN branch_students[b] ELSE <<>>)

\* both mixers have returned three groups and one branch has students in
\* the first and the last group of each
C25_Witness ==
    /\ entry = "script"
    /\ pc = "done"
    /\ N = 3
    /\ \E b \in Range(BranchCol(df)) :
          /\ RowsOf(mix_groups[1], b) # <<>> /\ RowsOf(mix_groups[3], b) # <<>>
          /\ RowsOf(uni_groups[1], b) # <<>> /\ RowsOf(uni_groups[3], b) # <<>>
    /\ Cardinality(Range(BranchCol(df))) > 1

\* the round-robin group being filled has reached the end of its while-loop
MixGroupComplete == pc = "mix_fill" /\ mix_g < N /\ ~MixWhile

\* C23: when a round-robin group is completed, for any two branches whose
\* queues are still non-empty the one earlier in first-encounter order has
\* given the group as many students as the later one, or one more.
C23_EvenInterleaving ==
    MixGroupComplete =>
       \A i, j \in 1..Len(branch_order) :
          (/\ i < j
           /\ branches[branch_order[i]] # <<>>
           /\ branches[branch_order[j]] # <<>>) =>
             LET early == CountOf(mix_group, branch_order[i])
                 late == CountOf(mix_group, branch_order[j])
             IN early = late \/ early = late + 1

\* a completed group that took two students from the first branch and one
\* from the second, both with students left
C23_Witness ==
    /\ MixGroupComplete
    /\ Len(branch_order) = 2
    /\ branches[branch_order[1]] # <<>>
    /\ branches[branch_order[2]] # <<>>
    /\ CountOf(mix_group, branch_order[1]) = 2
    /\ CountOf(mix_group, branch_order[2]) = 1

\* the loops of both mixers make progress and stop where they should
MixersProgress ==
    \* a sweep that is about to run pops at least one student
    /\ (pc = "mix_fill" /\ mix_g < N /\ MixWhile) =>
          Len(Sweep(branches, mix_group, group_sizes[mix_g + 1],
                    branch_order, 1).group) > Len(mix_group)
    \* the branch map holds no empty queue, so each take is of one or more
    /\ \A b \in DOMAIN branch_students : branch_students[b] # <<>>
    /\ pc = "uni_take" =>
          Min(Len(branch_students[branch]), remaining) >= 1
    \* a completed group has its target size
    /\ \A g \in 1..Len(mix_groups) : Len(mix_groups[g]) = group_sizes[g]
    /\ \A g \in 1..Len(uni_groups) : Len(uni_groups[g]) = group_sizes[g]
    \* after the last group every queue is empty
    /\ MixFilled => \A b \in DOMAIN branches : branches[b] = <<>>
    /\ UniFilled => DOMAIN branch_students = {}

\* the script is past the calls of both mixers, or a mixer has raised
MixersEnded == pc \in {"generate_combined_summary", "done", "aborted"}

\* C22: for every roster and N >= 1 both fill loops terminate; every sweep
\* of the round-robin loop and every take of the largest-remaining loop
\* moves at least one student, every completed group has its target size,
\* and after the last group all branch queues are empty.
C22_MixersTerminate == []MixersProgress /\ <>MixersEnded

\* both mixers have ended after one group of three students that needed
\* two sweeps and two takes
C22_Witness ==
    /\ entry = "script"
    /\ pc = "generate_combined_summary"
    /\ N = 1
    /\ Len(roster) = 3
    /\ Cardinality(Range(BranchCol(df))) = 2
    /\ \E b \in Range(BranchCol(df)) : CountOf(mix_groups[1], b) = 2
    /\ Len(uni_groups[1]) = 3

\* group tables with at least one row
NonEmptyGroups(files) == {g \in 1..Len(files) : files[g].rows # <<>>}

\* C21: a written summary of the largest-remaining groups has exactly one
\* row per group table with rows, and none for a table with zero rows.
C21_SummarySkipsEmpty ==
    (pc = "done" /\ entry # "generate_group_uniform_mix") =>
       LET rows == outputs.output_xlsx.Uniform_Mix.rows
       IN /\ Len(rows) = Cardinality(NonEmptyGroups(uni_files))
          /\ \A k \in 1..Len(rows) :
                /\ rows[k].Group \in NonEmptyGroups(uni_files)
                /\ rows[k].Total > 0
====
